---- MODULE Spec2Model ----
(***************************************************************************)
(* Customer account service: register, login, profile read / update /      *)
(* delete and the admin listing, as implemented by                         *)
(* src/controller/customer.controller.js behind the routes of              *)
(* src/routes/customer.route.js.                                           *)
(*                                                                         *)
(* A handler that awaits the store twice (register: findOne then create;   *)
(* update: findById then save) is two steps, so that other requests can    *)
(* run between them.  A handler that touches the store once is one step.   *)
(***************************************************************************)
EXTENDS Integers, FiniteSets, Sequences, TLC

\* ------------------------------------------------------------------ bounds
\* Number of ids the store can hand out (records ever created).
MaxId == 2

\* ------------------------------------------------------------- value sets
Undef == "undefined"          \* a field absent from a JSON body / document
Null == "null"

Emails == {"e1", "e2"}
Usernames == {"u1", "u2"}
Passwords == {"p1", "p2"}
Phones == {"ph1", "ph2"}
Urls == {"url1"}              \* secure_url values the image host returns
Salts == {"s1"}               \* salts bcrypt may draw
Files == {"bytes"}            \* req.file.buffer

Ids == 1 .. MaxId
NoId == 0                     \* an id claim / path id that is absent
Reqs == {1, 2}                \* requests that can be in flight together
One == {1}                    \* one request at a time

Truthy(v) == v # Undef /\ v # Null
Opt(S) == S \cup {Undef}

\* ------------------------------------------------------------ environment
EnvSecrets == {Undef, "env-secret"}   \* process.env.JWT_SECRET

VARIABLES
  store,    \* the customers collection: id -> document
  nextId,   \* the next _id the store assigns
  env,      \* process.env.JWT_SECRET
  pc,       \* per in-flight request: where its handler is suspended
  resp,     \* the response most recently sent (with the request it answers)
  held      \* the token the client last received

vars == <<store, nextId, env, pc, resp, held>>

\* controller line 6: const JWT_SECRET = process.env.JWT_SECRET || "your-secret-key"
JWT_SECRET == IF Truthy(env) THEN env ELSE "your-secret-key"
\* controller line 7 (process.env.JWT_EXPIRES is left unset)
JWT_EXPIRES == "7d"
SALT_ROUNDS == 10

\* ------------------------------------------------------------- documents
\* bcrypt.hash(password, SALT_ROUNDS): a salted one-way value, never the
\* plaintext itself.
bcryptHash(password, salt) ==
  [plain |-> password, salt |-> salt, rounds |-> SALT_ROUNDS]

\* bcrypt.compare(password, hash)
bcryptCompare(password, hash) == hash.plain = password

NoHash == [plain |-> Undef, salt |-> Undef, rounds |-> 0]

NoDoc == [email |-> Undef, username |-> Undef, password |-> NoHash,
          phone |-> Undef, image |-> Undef, createdAt |-> NoId]

\* ----------------------------------------------------------------- tokens
NoClaims == [id |-> NoId, customer_id |-> NoId, email |-> Undef,
             username |-> Undef, phone |-> Undef, image |-> Undef,
             is_admin |-> FALSE]

NoToken == [claims |-> NoClaims, sig |-> "none", ttl |-> "none",
            expired |-> FALSE]

\* jwt.sign(payload, secret, {expiresIn})
jwtSign(payload, secret, expiresIn) ==
  [claims |-> payload, sig |-> secret, ttl |-> expiresIn, expired |-> FALSE]

\* jwt.verify(token, secret): signature and expiry
jwtVerify(token, secret) == token.sig = secret /\ ~token.expired

\* Tokens the client can hold without this service having issued them in
\* the run: one minted for an administrator by the party that shares the
\* secret, one past its expiry, one signed with another key.
AdminToken ==
  [claims |-> [NoClaims EXCEPT !.customer_id = MaxId + 1, !.is_admin = TRUE],
   sig |-> JWT_SECRET, ttl |-> "7d", expired |-> FALSE]
ExpiredToken ==
  [claims |-> [NoClaims EXCEPT !.customer_id = 1, !.email = "e1"],
   sig |-> JWT_SECRET, ttl |-> "7d", expired |-> TRUE]
ForgedToken ==
  [claims |-> [NoClaims EXCEPT !.customer_id = 1, !.is_admin = TRUE],
   sig |-> "other-key", ttl |-> "7d", expired |-> FALSE]

\* What a request can carry in its Authorization header.
Presentable == {NoToken, AdminToken, ExpiredToken, ForgedToken, held}

\* The tokens among them that were issued under the service's secret and
\* have not expired, and the client's own.
Bearers == {AdminToken, held}

\* -------------------------------------------------------------- auth gates
\* Auth Gate: 0 when the request goes on to the handler (req.customer is the
\* decoded claims), else the status it is rejected with.
authenticateToken(token) ==
  IF token = NoToken THEN 401
  ELSE IF ~jwtVerify(token, JWT_SECRET) THEN 401
  ELSE 0

\* Admin Gate: as the Auth Gate, and the claims must carry a truthy is_admin
\* (req.user is the decoded claims).
authenticateTokenAdmin(token) ==
  IF token = NoToken THEN 401
  ELSE IF ~jwtVerify(token, JWT_SECRET) THEN 401
  ELSE IF ~token.claims.is_admin THEN 403
  ELSE 0

\* ------------------------------------------------------ requests, responses
NoInput == [email |-> Undef, username |-> Undef, password |-> Undef,
            phone |-> Undef, id |-> NoId, file |-> Undef, auth |-> NoToken]

Idle == [op |-> "idle", inp |-> NoInput, doc |-> NoDoc]

NoSummary == [id |-> NoId, customer_id |-> NoId, email |-> Undef,
              username |-> Undef, phone |-> Undef, image |-> Undef,
              createdAt |-> NoId]

NoList == << >>

NoResp == [op |-> "none", inp |-> NoInput, status |-> 0, exit |-> 0,
           message |-> Undef, error |-> Undef, token |-> NoToken,
           customer |-> NoSummary, list |-> NoList, thrown |-> "none"]

\* res.status(status).json({message}) sent from controller line `exit`
Reply(op, inp, status, exit, message) ==
  [NoResp EXCEPT !.op = op, !.inp = inp, !.status = status, !.exit = exit,
                 !.message = message]

\* a catch block: console.error(thrown); res.status(500).json(body)
ServerError(op, inp, exit, thrown) ==
  [NoResp EXCEPT !.op = op, !.inp = inp, !.status = 500, !.exit = exit,
                 !.message = IF op = "register" THEN "Server error" ELSE Undef,
                 !.error = IF op = "register" THEN Undef
                           ELSE "Internal server error",
                 !.thrown = thrown]

\* a gate's rejection (the handler is not invoked)
GateReply(op, inp, status) ==
  [NoResp EXCEPT !.op = op, !.inp = inp, !.status = status, !.exit = 0]

\* ------------------------------------------------------------------ store
\* (variant) the existence check looks at the email alone
existsByEmail(s, email, username) ==
  \E i \in DOMAIN s : s[i].email = email

\* Customer.findOne({$or: [{email}, {username}]}) finds a document
existsByEmailOrUsername(s, email, username) ==
  \E i \in DOMAIN s : s[i].email = email \/ s[i].username = username

\* Customer.findOne({email}): the ids of the matching documents
findByEmail(s, email) == {i \in DOMAIN s : s[i].email = email}

\* (variant) a collection without unique indexes
NoUniqueIndex(s, id, doc) == FALSE

\* The unique indexes on email and on username: writing `doc` under `id`
\* would duplicate a key held by another document.
DuplicateKey(s, id, doc) ==
  \E i \in DOMAIN s \ {id} :
    s[i].email = doc.email \/ s[i].username = doc.username

Init ==
  /\ store = [i \in {} |-> NoDoc]
  /\ nextId = 1
  /\ env \in EnvSecrets
  /\ pc = [r \in Reqs |-> Idle]
  /\ resp = NoResp
  /\ held = NoToken

\* The handlers run one step at a time; a response is delivered to the client
\* (Receive) before the next step is taken.
Quiet == resp = NoResp

\* A new request takes the lowest request slot that is free.
Free(r) == pc[r] = Idle /\ \A q \in Reqs : q < r => pc[q] # Idle

PendingRegisters == Cardinality({r \in Reqs : pc[r].op = "register"})

\* ---------------------------------------------------------------- register
\* controller lines 64-68: the payload register signs
registerPayload(id, doc) ==
  [NoClaims EXCEPT !.id = id, !.email = doc.email]

\* controller lines 74-79
registerSummary(id, doc) ==
  [NoSummary EXCEPT !.id = id, !.email = doc.email,
                    !.username = doc.username, !.image = doc.image]

\* controller lines 36-50: validate, then the existence check
RegisterCheck(r, body) ==
  LET email == body.email
      username == body.username
      password == body.password
      inp == [NoInput EXCEPT !.email = email, !.username = username,
                             !.password = password]
  IN /\ Quiet
     /\ Free(r)
     /\ IF ~Truthy(email) \/ ~Truthy(username) \/ ~Truthy(password)
        THEN /\ resp' = Reply("register", inp, 400, 40, "All fields are required")
             /\ pc' = pc
        ELSE IF existsByEmailOrUsername(store, email, username)
        THEN /\ resp' = Reply("register", inp, 409, 49, "Customer already exists")
             /\ pc' = pc
        ELSE /\ nextId + PendingRegisters <= MaxId
             /\ pc' = [pc EXCEPT ![r] = [op |-> "register", inp |-> inp,
                                         doc |-> NoDoc]]
             /\ resp' = resp
     /\ UNCHANGED <<store, nextId, env, held>>

\* process.env.JWT_SECRET, the key register signs with (controller line 66)
registerSecret == env

\* jwt.sign throws "secretOrPrivateKey must have a value" without a key
jwtSignThrows(secret) == ~Truthy(secret)

\* controller lines 56-61: the document register creates
registerDoc(inp, hashedPassword, stamp) ==
  [email |-> inp.email, username |-> inp.username,
   password |-> hashedPassword, phone |-> Undef, image |-> Null,
   createdAt |-> stamp]

\* controller lines 71-80
registerReply(inp, id, doc, token) ==
  [Reply("register", inp, 201, 71, "Registration successful")
     EXCEPT !.token = token, !.customer = registerSummary(id, doc)]

\* controller lines 52-84: hash, create, sign, respond.  F is the set of
\* faults the collaborators may raise.
RegisterCreate(r, F) ==
  /\ Quiet
  /\ pc[r].op = "register"
  /\ pc' = [pc EXCEPT ![r] = Idle]
  /\ \E salt \in Salts, fault \in F \cup {"none"} :
       LET inp == pc[r].inp
           id == nextId
           doc == registerDoc(inp, bcryptHash(inp.password, salt), id)
       IN IF fault = "hash"
          THEN /\ resp' = ServerError("register", inp, 83, "hash")
               /\ UNCHANGED <<store, nextId>>
          ELSE IF fault = "store"
          THEN /\ resp' = ServerError("register", inp, 83, "store")
               /\ UNCHANGED <<store, nextId>>
          ELSE IF DuplicateKey(store, id, doc)
          THEN /\ resp' = ServerError("register", inp, 83, "E11000")
               /\ UNCHANGED <<store, nextId>>
          ELSE /\ store' = (id :> doc) @@ store
               /\ nextId' = nextId + 1
               /\ IF jwtSignThrows(registerSecret)
                  THEN resp' = ServerError("register", inp, 83, "sign")
                  ELSE resp' = registerReply(inp, id, doc,
                                 jwtSign(registerPayload(id, doc),
                                         registerSecret, "7d"))
  /\ UNCHANGED <<env, held>>

\* ------------------------------------------------------------------- login
\* controller lines 114-120 and 127-133
loginPayload(id, doc) ==
  [NoClaims EXCEPT !.customer_id = id, !.email = doc.email,
                   !.username = doc.username, !.phone = doc.phone,
                   !.image = doc.image]

loginSummary(id, doc) ==
  [NoSummary EXCEPT !.customer_id = id, !.email = doc.email,
                    !.username = doc.username, !.phone = doc.phone,
                    !.image = doc.image]

\* (variant) an unknown email is reported as such
loginEmailUnknown(inp) == Reply("login", inp, 404, 107, "Customer not found")

\* controller line 107
loginNoCustomer(inp) == Reply("login", inp, 401, 107, "Invalid email or password")

\* controller line 111
loginNoMatch(inp) == Reply("login", inp, 401, 111, "Invalid email or password")

\* controller lines 98-140
Login(body) ==
  LET email == body.email
      password == body.password
      inp == [NoInput EXCEPT !.email = email, !.password = password]
      found == findByEmail(store, email)
  IN /\ Quiet
     /\ IF ~Truthy(email) \/ ~Truthy(password)
        THEN resp' = Reply("login", inp, 400, 103, "Email and password required")
        ELSE IF found = {}
        THEN resp' = loginNoCustomer(inp)
        ELSE \E id \in found :
               IF ~bcryptCompare(password, store[id].password)
               THEN resp' = loginNoMatch(inp)
               ELSE resp' = [Reply("login", inp, 200, 125, "Login successful")
                               EXCEPT !.token = jwtSign(loginPayload(id, store[id]),
                                                        JWT_SECRET, JWT_EXPIRES),
                                      !.customer = loginSummary(id, store[id])]
     /\ UNCHANGED <<store, nextId, env, pc, held>>

\* -------------------------------------------------------------- getProfile
\* controller lines 162-169
profileSummary(id, doc) ==
  [NoSummary EXCEPT !.customer_id = id, !.email = doc.email,
                    !.username = doc.username, !.phone = doc.phone,
                    !.image = doc.image, !.createdAt = doc.createdAt]

\* controller line 154: the id getProfile looks up, read off req.customer
profileId(claims) == claims.customer_id

\* routes line 26, controller lines 152-175
GetProfile(token) ==
  LET inp == [NoInput EXCEPT !.auth = token]
      gate == authenticateToken(token)
      id == profileId(token.claims)
  IN /\ Quiet
     /\ IF gate # 0
        THEN resp' = GateReply("getProfile", inp, gate)
        ELSE IF id \notin DOMAIN store
        THEN resp' = Reply("getProfile", inp, 404, 159, "Customer not found")
        ELSE resp' = [Reply("getProfile", inp, 200, 161, Undef)
                        EXCEPT !.customer = profileSummary(id, store[id])]
     /\ UNCHANGED <<store, nextId, env, pc, held>>

\* ------------------------------------------------------------------ update
\* the customer a token speaks for
Subject(token) ==
  IF token.claims.customer_id # NoId THEN token.claims.customer_id
  ELSE token.claims.id

\* (variant) update works on the caller's own record
updateOwnRecord(inp) == Subject(inp.auth)

\* controller line 188: the record update works on, read off req.params
updateTarget(inp) == inp.id

\* (variant) the email is assigned whether or not the body carries one
applyPatchUnguardedEmail(doc, inp, hashedPassword) ==
  [doc EXCEPT !.password = IF Truthy(inp.password) THEN hashedPassword ELSE @,
              !.username = IF Truthy(inp.username) THEN inp.username ELSE @,
              !.email = inp.email,
              !.phone = IF Truthy(inp.phone) THEN inp.phone ELSE @]

\* controller lines 195-198: only the truthy fields of the body are assigned
applyPatch(doc, inp, hashedPassword) ==
  [doc EXCEPT !.password = IF Truthy(inp.password) THEN hashedPassword ELSE @,
              !.username = IF Truthy(inp.username) THEN inp.username ELSE @,
              !.email = IF Truthy(inp.email) THEN inp.email ELSE @,
              !.phone = IF Truthy(inp.phone) THEN inp.phone ELSE @]

\* controller lines 200-203
applyImage(doc, inp, url) ==
  IF Truthy(inp.file) THEN [doc EXCEPT !.image = url] ELSE doc

\* customer.save() (controller line 205): the paths whose value differs from
\* the value loaded by findById are written to the stored document
saveDoc(stored, loaded, customer) ==
  [f \in DOMAIN customer |->
     IF customer[f] # loaded[f] THEN customer[f] ELSE stored[f]]

\* the unique indexes on save: a modified email or username that another
\* document holds
DuplicateOnSave(s, id, loaded, customer) ==
  \E i \in DOMAIN s \ {id} :
    \/ customer.email # loaded.email /\ s[i].email = customer.email
    \/ customer.username # loaded.username /\ s[i].username = customer.username

\* (variant) the field edits are saved before the upload is attempted
savedBeforeUpload(s, id, loaded, patched) ==
  IF id \in DOMAIN s THEN [s EXCEPT ![id] = saveDoc(@, loaded, patched)] ELSE s

\* controller lines 200-205: uploadToCloudinary rejects, the handler leaves
\* for its catch block before customer.save() is reached
storeAfterFailedUpload(s, id, loaded, patched) == s

\* controller lines 207-216
updateReply(inp, id, customer) ==
  [Reply("update", inp, 200, 207, "Profile updated successfully")
     EXCEPT !.customer = loginSummary(id, customer)]

\* routes lines 31-36, controller lines 186-193: the gate, then findById
UpdateFind(r, token, id) ==
  LET inp == [NoInput EXCEPT !.id = id, !.auth = token]
      gate == authenticateToken(token)
      target == updateTarget(inp)
  IN /\ Quiet
     /\ Free(r)
     /\ IF gate # 0
        THEN /\ resp' = GateReply("update", [NoInput EXCEPT !.auth = token], gate)
             /\ pc' = pc
        ELSE IF target \notin DOMAIN store
        THEN /\ resp' = Reply("update", inp, 404, 193, "Customer not found")
             /\ pc' = pc
        ELSE /\ pc' = [pc EXCEPT ![r] = [op |-> "update", inp |-> inp,
                                         doc |-> store[target]]]
             /\ resp' = resp
     /\ UNCHANGED <<store, nextId, env, held>>

\* controller lines 195-220: hash, assign, upload, save, respond.  The body
\* fields are first read here, after findById has resolved, so the step
\* draws them.
UpdateSave(r, F, body) ==
  /\ Quiet
  /\ pc[r].op = "update"
  /\ pc' = [pc EXCEPT ![r] = Idle]
  /\ \E salt \in Salts, url \in Urls, fault \in F \cup {"none"} :
       LET inp == [pc[r].inp EXCEPT !.username = body.username,
                                    !.email = body.email, !.phone = body.phone,
                                    !.password = body.password,
                                    !.file = body.file]
           id == updateTarget(inp)
           loaded == pc[r].doc
           patched == applyPatch(loaded, inp, bcryptHash(inp.password, salt))
           customer == applyImage(patched, inp, url)
       IN IF fault = "hash" /\ Truthy(inp.password)
          THEN /\ resp' = ServerError("update", inp, 219, "hash")
               /\ store' = store
          ELSE IF fault = "upload" /\ Truthy(inp.file)
          THEN /\ resp' = ServerError("update", inp, 219, "upload")
               /\ store' = storeAfterFailedUpload(store, id, loaded, patched)
          ELSE IF id \notin DOMAIN store
          THEN /\ resp' = ServerError("update", inp, 219, "DocumentNotFound")
               /\ store' = store
          ELSE IF fault = "store"
          THEN /\ resp' = ServerError("update", inp, 219, "store")
               /\ store' = store
          ELSE IF DuplicateOnSave(store, id, loaded, customer)
          THEN /\ resp' = ServerError("update", inp, 219, "E11000")
               /\ store' = store
          ELSE /\ store' = [store EXCEPT ![id] = saveDoc(@, loaded, customer)]
               /\ resp' = updateReply(inp, id, customer)
  /\ UNCHANGED <<nextId, env, held>>

\* ----------------------------------------------------------- deleteProfile
\* controller line 234: the record deleteProfile removes, read off req.params
deleteTarget(inp) == inp.id

\* routes lines 41-45, controller lines 232-245
DeleteProfile(token, id) ==
  LET inp == [NoInput EXCEPT !.id = id, !.auth = token]
      gate == authenticateToken(token)
      target == deleteTarget(inp)
  IN /\ Quiet
     /\ IF gate # 0
        THEN /\ resp' = GateReply("delete", [NoInput EXCEPT !.auth = token], gate)
             /\ store' = store
        ELSE IF target \notin DOMAIN store
        THEN /\ resp' = Reply("delete", inp, 404, 238, "Customer not found")
             /\ store' = store
        ELSE /\ store' = [i \in DOMAIN store \ {target} |-> store[i]]
             /\ resp' = Reply("delete", inp, 200, 240, "Profile deleted successfully")
     /\ UNCHANGED <<nextId, env, pc, held>>

\* ------------------------------------------------------------------ getAll
\* controller line 258: the handler's own check of req.user
isAdmin(claims) == claims.is_admin

\* (variant) findOne in place of find: the first document only
customerFindOne(s) ==
  [i \in {j \in DOMAIN s : \A k \in DOMAIN s : j <= k} |-> s[i]]

\* controller line 262: Customer.find()
customerFind(s) == s

\* routes line 50, controller lines 256-268
GetAll(token) ==
  LET inp == [NoInput EXCEPT !.auth = token]
      gate == authenticateTokenAdmin(token)
  IN /\ Quiet
     /\ IF gate # 0
        THEN resp' = GateReply("getAll", inp, gate)
        ELSE IF ~isAdmin(token.claims)
        THEN resp' = [Reply("getAll", inp, 403, 259, Undef)
                        EXCEPT !.error = "Access denied"]
        ELSE resp' = [Reply("getAll", inp, 200, 263, Undef)
                        EXCEPT !.list = customerFind(store)]
     /\ UNCHANGED <<store, nextId, env, pc, held>>

\* ----------------------------------------------------------- specification
Faults == {"hash", "store", "upload"}

\* The client takes the response, and keeps the token it carries.
Receive ==
  /\ resp # NoResp
  /\ resp' = NoResp
  /\ held' = IF resp.token # NoToken THEN resp.token ELSE held
  /\ UNCHANGED <<store, nextId, env, pc>>

\* Request bodies: every complete body over the value sets, and one body
\* for each way of leaving a field out.
RegisterBodies ==
  [email : Emails, username : Usernames, password : Passwords] \cup
  { [email |-> Undef, username |-> "u1", password |-> "p1"],
    [email |-> "e1", username |-> Undef, password |-> "p1"],
    [email |-> "e1", username |-> "u1", password |-> Undef] }

LoginBodies ==
  [email : Emails, password : Passwords] \cup
  { [email |-> Undef, password |-> "p1"], [email |-> "e1", password |-> Undef] }

NoBody == [username |-> Undef, email |-> Undef, phone |-> Undef,
           password |-> Undef, file |-> Undef]

\* edits of the credentials
AccountEdits ==
  { [NoBody EXCEPT !.password = "p2"],
    [NoBody EXCEPT !.email = "e1"], [NoBody EXCEPT !.email = "e2"],
    [NoBody EXCEPT !.username = "u1"], [NoBody EXCEPT !.username = "u2"] }

\* edits of the profile: one field alone, the image alone, every field with
\* an image
ProfileEdits ==
  AccountEdits \cup
  { [NoBody EXCEPT !.phone = "ph1"],
    [NoBody EXCEPT !.file = "bytes"],
    [username |-> "u1", email |-> "e1", phone |-> "ph1", password |-> "p2",
     file |-> "bytes"],
    [username |-> "u2", email |-> "e2", phone |-> "ph1", password |-> "p2",
     file |-> "bytes"] }

\* edits that can collide or overwrite one another
RaceEdits ==
  { [NoBody EXCEPT !.phone = "ph1"], [NoBody EXCEPT !.phone = "ph2"],
    [NoBody EXCEPT !.email = "e1"], [NoBody EXCEPT !.email = "e2"] }

SignupBodies == [email : Emails, username : Usernames, password : {"p1"}]

\* The account flow, one request at a time: every route, every fault.
Next ==
  \/ \E r \in One, b \in RegisterBodies : RegisterCheck(r, b)
  \/ \E r \in One : RegisterCreate(r, Faults)
  \/ \E b \in LoginBodies : Login(b)
  \/ \E t \in Presentable : GetProfile(t)
  \/ \E r \in One, t \in Presentable, id \in Ids : UpdateFind(r, t, id)
  \/ \E r \in One, b \in AccountEdits : UpdateSave(r, Faults, b)
  \/ \E t \in Presentable, id \in Ids : DeleteProfile(t, id)
  \/ \E t \in Presentable : GetAll(t)
  \/ Receive

Spec == Init /\ [][Next]_vars

\* A deployment with process.env.JWT_SECRET set.
InitConfigured == Init /\ env = "env-secret"

\* Profile maintenance with the signing secret configured: sign-up, update
\* with every kind of edit and every fault, delete.
NextProfile ==
  \/ \E r \in One, b \in SignupBodies : RegisterCheck(r, b)
  \/ \E r \in One : RegisterCreate(r, Faults)
  \/ \E r \in One, t \in Presentable, id \in Ids : UpdateFind(r, t, id)
  \/ \E r \in One, b \in ProfileEdits : UpdateSave(r, Faults, b)
  \/ \E t \in Presentable, id \in Ids : DeleteProfile(t, id)
  \/ Receive

SpecProfile == InitConfigured /\ [][NextProfile]_vars

\* Two requests in flight: sign-ups, updates and deletes interleave at the
\* handlers' awaits.
NextRace ==
  \/ \E r \in Reqs, b \in SignupBodies : RegisterCheck(r, b)
  \/ \E r \in Reqs : RegisterCreate(r, {})
  \/ \E r \in Reqs, t \in Bearers, id \in Ids : UpdateFind(r, t, id)
  \/ \E r \in Reqs, b \in RaceEdits : UpdateSave(r, {}, b)
  \/ \E t \in Bearers, id \in Ids : DeleteProfile(t, id)
  \/ Receive

SpecRace == InitConfigured /\ [][NextRace]_vars

\* ================================================================== claims
\* A handler step that sends a response of operation `op`.
Sends(op) == resp = NoResp /\ resp'.op = op

\* The second step of a two-step handler in slot r.
CreateStep(r) == pc[r].op = "register" /\ pc'[r] = Idle
SaveStep(r) == pc[r].op = "update" /\ pc'[r] = Idle

HoldsEmail(s, email) == \E i \in DOMAIN s : s[i].email = email
HoldsUsername(s, username) == \E i \in DOMAIN s : s[i].username = username
AllPresent(inp) ==
  Truthy(inp.email) /\ Truthy(inp.username) /\ Truthy(inp.password)

\* What the client sees of a response.
Seen(r) == [status |-> r.status, message |-> r.message, error |-> r.error,
            token |-> r.token, customer |-> r.customer, list |-> r.list]

\* ---------------------------------------------------------------------- C1
\* C1: a token issued by a successful Register, presented on GET /profile,
\* makes GetProfile return the registered customer (200, not 404) as long
\* as that customer's record exists.
C1_RegisterTokenResolvesProfile ==
  LET token == resp.inp.auth
  IN (/\ resp.op = "getProfile"
      /\ token.claims.id # NoId
      /\ jwtVerify(token, JWT_SECRET)
      /\ token.claims.id \in DOMAIN store)
     => /\ resp.status = 200
        /\ resp.customer.customer_id = token.claims.id

\* ---------------------------------------------------------------------- C2
\* C2: Register with three present fields that no record holds succeeds
\* with 201, creates exactly one record and returns a token whose claims are
\* that record's id and email; a Login with the email and password of an
\* unchanged record succeeds with 200.  Read in the code's favour: requests
\* whose hashing or store call failed are not counted.
C2_FreshRegisterSucceeds ==
  /\ (/\ resp.op = "register"
      /\ resp.exit \notin {40, 49}
      /\ resp.thrown \notin {"hash", "store", "E11000"})
     => /\ resp.status = 201
        /\ Cardinality({i \in DOMAIN store :
                          store[i].email = resp.inp.email}) = 1
        /\ \E i \in DOMAIN store :
             /\ store[i].email = resp.inp.email
             /\ store[i].username = resp.inp.username
             /\ resp.token.claims =
                  [NoClaims EXCEPT !.id = i, !.email = resp.inp.email]
  /\ (/\ resp.op = "login"
      /\ \E i \in DOMAIN store :
           /\ store[i].email = resp.inp.email
           /\ store[i].password.plain = resp.inp.password)
     => resp.status = 200

\* ---------------------------------------------------------------------- C3
\* C3: whatever the interleaving of Register, UpdateProfile and
\* DeleteProfile, no two records share an email and no two share a username.
C3_UniqueEmailAndUsername ==
  \A i, j \in DOMAIN store :
    i # j => /\ store[i].email # store[j].email
             /\ store[i].username # store[j].username

\* a sign-up or an update lost the race: its check passed and its write was
\* refused
C3_Witness == resp.thrown = "E11000" /\ Cardinality(DOMAIN store) >= 1

\* ---------------------------------------------------------------------- C4
\* C4: Register with three present fields answers 409 whenever a record
\* holds the email or a record holds the username, creates nothing and
\* issues no token; a request goes on to create only when neither is held.
C4_CollisionIsConflict ==
  [][ /\ (/\ Sends("register")
          /\ pc' = pc
          /\ AllPresent(resp'.inp)
          /\ (HoldsEmail(store, resp'.inp.email)
              \/ HoldsUsername(store, resp'.inp.username)))
         => /\ resp'.status = 409
            /\ store' = store
            /\ resp'.token = NoToken
      /\ \A r \in Reqs :
           (pc[r] = Idle /\ pc'[r].op = "register")
           => /\ ~HoldsEmail(store, pc'[r].inp.email)
              /\ ~HoldsUsername(store, pc'[r].inp.username) ]_vars

\* a 409 where only the username collides
C4_Witness ==
  /\ resp.op = "register"
  /\ resp.status = 409
  /\ HoldsUsername(store, resp.inp.username)
  /\ ~HoldsEmail(store, resp.inp.email)

\* ---------------------------------------------------------------------- C5
\* C5: ListAll with a valid token that has no truthy is_admin is answered
\* 403 without customer data; with a valid admin token it is answered with
\* every record in the store.
C5_ListAllAdminOnly ==
  (resp.op = "getAll" /\ jwtVerify(resp.inp.auth, JWT_SECRET))
  => IF resp.inp.auth.claims.is_admin
     THEN /\ resp.status = 200
          /\ DOMAIN resp.list = DOMAIN store
          /\ \A i \in DOMAIN store : resp.list[i] = store[i]
     ELSE /\ resp.status = 403
          /\ resp.list = NoList
          /\ resp.customer = NoSummary

\* the admin listing of a store with two records
C5_Witness ==
  /\ resp.op = "getAll"
  /\ resp.status = 200
  /\ Cardinality(DOMAIN store) = 2

\* ---------------------------------------------------------------------- C6
\* C6: what Login answers when no record has the email is what it answers
\* when a record has it and the password does not verify: status 401 and the
\* one message.
LoginRefused ==
  [status |-> 401, message |-> "Invalid email or password", error |-> Undef,
   token |-> NoToken, customer |-> NoSummary, list |-> NoList]

PhoneOnly(inp) ==
  /\ Truthy(inp.phone)
  /\ ~Truthy(inp.email) /\ ~Truthy(inp.username)
  /\ ~Truthy(inp.password) /\ ~Truthy(inp.file)

\* what a phone-only update that succeeds does to the store
PhoneOnlyEffect(r) ==
  LET id == pc[r].inp.id
  IN /\ DOMAIN store' = DOMAIN store
     /\ store'[id] = [store[id] EXCEPT !.phone = resp'.inp.phone]
     /\ \A j \in DOMAIN store \ {id} : store'[j] = store[j]

\* C7 (as stated): an UpdateProfile on an existing id whose body carries a
\* phone and nothing else sets the record's phone to the body's and leaves
\* its email, username, password hash and image, and every other record, as
\* they were.
C7_PhoneOnlyUpdateAsStated ==
  [][ \A r \in Reqs :
        (SaveStep(r) /\ resp'.status = 200 /\ PhoneOnly(resp'.inp))
        => PhoneOnlyEffect(r) ]_vars

\* C7 (amended): the same, for a request whose record no other request
\* wrote between the request's lookup and its save.
C7_PhoneOnlyUpdate ==
  [][ \A r \in Reqs :
        (/\ SaveStep(r)
         /\ resp'.status = 200
         /\ PhoneOnly(resp'.inp)
         /\ store[pc[r].inp.id] = pc[r].doc)
        => PhoneOnlyEffect(r) ]_vars

\* a phone-only update has gone through while another record exists
C7_Witness ==
  /\ resp.op = "update"
  /\ resp.status = 200
  /\ PhoneOnly(resp.inp)
  /\ Cardinality(DOMAIN store) = 2
  /\ store[resp.inp.id].phone = resp.inp.phone

\* ---------------------------------------------------------------------- C8
\* C8: an UpdateProfile that carries image bytes is all-or-nothing: when the
\* upload fails the request fails and the store is as it was; otherwise
\* either the request succeeds and the record (which no other request wrote
\* since the lookup) holds the new image URL and every edit of the body, or
\* it fails and the store is as it was.
C8_UploadAllOrNothing ==
  [][ \A r \in Reqs :
        (SaveStep(r) /\ Truthy(resp'.inp.file))
        => LET inp == resp'.inp
               id == pc[r].inp.id
           IN /\ resp'.thrown = "upload"
                 => (resp'.status = 500 /\ store' = store)
              /\ resp'.status # 200 => store' = store
              /\ (resp'.status = 200 /\ store[id] = pc[r].doc)
                 => /\ store'[id].image \in Urls
                    /\ Truthy(inp.email) => store'[id].email = inp.email
                    /\ Truthy(inp.username)
                       => store'[id].username = inp.username
                    /\ Truthy(inp.phone) => store'[id].phone = inp.phone
                    /\ Truthy(inp.password)
                       => store'[id].password.plain = inp.password ]_vars

\* the upload failed for a request that also edits every field
C8_Witness ==
  /\ resp.op = "update"
  /\ resp.thrown = "upload"
  /\ Truthy(resp.inp.password)
  /\ Truthy(resp.inp.email)
  /\ Truthy(resp.inp.username)
  /\ Truthy(resp.inp.phone)

\* ---------------------------------------------------------------------- C9
\* C9: UpdateProfile and DeleteProfile act on the record of the path id and
\* never compare it with the caller: with a valid token of customer A and
\* the path id of another customer B the request is not turned away, B's
\* record is modified (it takes the edits of the body, when no other request
\* wrote it since the lookup) or removed, and A's record is left as it was.
Edited(doc, inp) ==
  /\ Truthy(inp.email) => doc.email = inp.email
  /\ Truthy(inp.username) => doc.username = inp.username
  /\ Truthy(inp.phone) => doc.phone = inp.phone
  /\ Truthy(inp.password) => doc.password.plain = inp.password
  /\ Truthy(inp.file) => doc.image \in Urls

C9_ActsOnPathId ==
  [][ /\ \A r \in Reqs :
           (SaveStep(r) /\ resp'.status = 200)
           => LET a == Subject(resp'.inp.auth)
                  b == resp'.inp.id
              IN (a # b /\ a \in DOMAIN store)
                 => /\ store[b] = pc[r].doc => Edited(store'[b], resp'.inp)
                    /\ store'[a] = store[a]
      /\ (/\ Sends("update")
          /\ pc' = pc
          /\ jwtVerify(resp'.inp.auth, JWT_SECRET))
         => (resp'.status = 404 /\ resp'.inp.id \notin DOMAIN store)
      /\ (/\ Sends("delete")
          /\ jwtVerify(resp'.inp.auth, JWT_SECRET)
          /\ resp'.inp.id \in DOMAIN store)
         => LET a == Subject(resp'.inp.auth)
                b == resp'.inp.id
            IN /\ resp'.status = 200
               /\ b \notin DOMAIN store'
               /\ (a # b /\ a \in DOMAIN store)
                  => (a \in DOMAIN store' /\ store'[a] = store[a]) ]_vars

\* customer A's token has changed customer B's record
C9_Witness ==
  /\ resp.op = "update"
  /\ resp.status = 200
  /\ Subject(resp.inp.auth) # resp.inp.id
  /\ Subject(resp.inp.auth) \in DOMAIN store
  /\ Truthy(resp.inp.email)

\* --------------------------------------------------------------------- C10
\* C10: a Register request that ends with anything but 201 leaves the set
\* of customer records as it was.
C10_FailedRegisterLeavesStore ==
  [][ (Sends("register") /\ resp'.status # 201) => store' = store ]_vars

====
